---- MODULE Spec2Model ----
(***************************************************************************)
(* Model of the tfgrpo experience collector: the Episode / EpisodeTracker  *)
(* classes and extract_error_summary (episode.py), the ExperienceStorage   *)
(* class with its EmbeddingGenerator (storage.py), extract_experience      *)
(* (summarizer.py) and the tool handlers of call_tool (server.py).         *)
(*                                                                         *)
(* Conventions.  A Python Optional is a sequence of length 0 (None) or 1.  *)
(* Texts that the store lower-cases, splits or searches are sequences of   *)
(* one-character strings; opaque texts are TLA+ strings.  Time is a        *)
(* discrete clock: one tick is the resolution of datetime.now() and of a   *)
(* file's modification time, TicksPerSecond ticks make one second.         *)
(***************************************************************************)
EXTENDS Integers, Sequences, FiniteSets, TLC

VARIABLES now, heap, episodes, files, embedding_gen, api_key, cache, reply, calls

vars == <<now, heap, episodes, files, embedding_gen, api_key, cache, reply, calls>>

(***************************************************************************)
(* Bounds of the model.                                                    *)
(***************************************************************************)
MaxTick == 3
TicksPerSecond == 2
MaxEpisodes == 2
MaxAttempts == 3
MaxLimit == 3
MaxEmbedDelay == 1
MaxThreads == 2

(***************************************************************************)
(* Python values.                                                          *)
(***************************************************************************)
None == <<>>
Some(x) == <<x>>

Min(a, b) == IF a <= b THEN a ELSE b
Max(a, b) == IF a >= b THEN a ELSE b

\* seq[start:] of Python, for any integer start.
PySliceFrom(seq, start) ==
  LET n == Len(seq)
      s == IF start < 0 THEN Max(n + start, 0) ELSE Min(start, n)
  IN  SubSeq(seq, s + 1, n)

\* seq[:stop] of Python, for any integer stop.
PySliceTo(seq, stop) ==
  LET n == Len(seq)
      e == IF stop < 0 THEN Max(n + stop, 0) ELSE Min(stop, n)
  IN  SubSeq(seq, 1, e)

(***************************************************************************)
(* Calls run one at a time, each to completion: `reply` holds what the     *)
(* call in progress has returned until the caller takes it.                *)
(***************************************************************************)
Idle == [op |-> "idle"]

\* The caller takes the returned value; the next call can be made.
Return ==
  /\ reply # Idle
  /\ reply' = Idle
  /\ UNCHANGED <<now, heap, episodes, files, embedding_gen, api_key, cache, calls>>

(***************************************************************************)
(* Threads that call the tracker at the same time: calls[t] is the frame   *)
(* of the call thread t is in, NoCall between calls.  The server makes     *)
(* every call from its one event loop, and then no frame is ever open.     *)
(***************************************************************************)
Threads == 1..MaxThreads

NoCall == [pc |-> "idle"]

(***************************************************************************)
(* The clock.  datetime.now() reads `now`; any number of calls may fall in *)
(* one tick.                                                               *)
(***************************************************************************)
Tick ==
  /\ reply = Idle
  /\ now < MaxTick
  /\ now' = now + 1
  /\ UNCHANGED <<heap, episodes, files, embedding_gen, api_key, cache, reply, calls>>

\* f"ep_{datetime.now().strftime('%Y%m%d_%H%M%S_%f')}": the full resolution
\* of the clock.
EpisodeId(t) == <<"ep", t>>

\* f"exp_{datetime.now().strftime('%Y%m%d_%H%M%S')}.json": the sub-second
\* part of the clock is dropped.
FileName(t) == <<"exp", t \div TicksPerSecond>>

(***************************************************************************)
(* Episode and Attempt (episode.py).                                       *)
(***************************************************************************)
S_A == <<"A">>
S_ab == <<"a", "b">>
S_b == <<"b">>
S_empty == <<>>

Tasks == {S_A, S_ab}
ShortDescs == {"d1", "d2"}
ErrorTypes == {None, Some("TimeoutError")}
ErrorLines == {None}
Results == {"r1"}
NotesArgs == {None, Some("n1")}

Attempt(short_desc, error_type, error_line, success) ==
  [short_desc |-> short_desc, error_type |-> error_type,
   error_line |-> error_line, success |-> success]

\* An Episode whose final_success defaults to False.
Episode_FinalFalse(id, task, created_at) ==
  [id |-> id, task |-> task, created_at |-> created_at, attempts |-> <<>>,
   final_result |-> None, final_success |-> Some(FALSE), notes |-> None]

Episode(id, task, created_at) ==
  [id |-> id, task |-> task, created_at |-> created_at, attempts |-> <<>>,
   final_result |-> None, final_success |-> None, notes |-> None]

\* Episode.add_attempt, on the attempts list.
add_attempt(attempts, short_desc, error_type, error_line, success) ==
  Append(attempts, Attempt(short_desc, error_type, error_line, success))

\* [a for a in self.attempts if not a.success]
RECURSIVE FailedAttempts(_)
FailedAttempts(attempts) ==
  IF attempts = <<>> THEN <<>>
  ELSE IF ~Head(attempts).success
       THEN <<Head(attempts)>> \o FailedAttempts(Tail(attempts))
       ELSE FailedAttempts(Tail(attempts))

\* Episode.get_failures: failed[-limit:].
get_failures(attempts, limit) ==
  PySliceFrom(FailedAttempts(attempts), 0 - limit)

\* A forward scan in place of the reversed one.
RECURSIVE get_success_forward(_)
get_success_forward(attempts) ==
  IF attempts = <<>> THEN None
  ELSE IF Head(attempts).success THEN Some(Head(attempts))
       ELSE get_success_forward(Tail(attempts))

\* Episode.get_success: the first successful attempt of reversed(attempts).
RECURSIVE get_success(_)
get_success(attempts) ==
  IF attempts = <<>> THEN None
  ELSE IF attempts[Len(attempts)].success THEN Some(attempts[Len(attempts)])
       ELSE get_success(SubSeq(attempts, 1, Len(attempts) - 1))

(***************************************************************************)
(* Operations on one Episode object the caller holds (heap[obj]).          *)
(***************************************************************************)
Objects == 1..Len(heap)

\* add_attempt on an attempts list that every Episode shares (a list given
\* as the default of the field, not made by a default_factory).
AddAttempt_SharedList(obj, short_desc, error_type, error_line, success) ==
  /\ reply = Idle
  /\ Len(heap[obj].attempts) < MaxAttempts
  /\ heap' = [o \in Objects |->
                [heap[o] EXCEPT !.attempts =
                   add_attempt(@, short_desc, error_type, error_line, success)]]
  /\ reply' = [op |-> "add_attempt", obj |-> obj]
  /\ UNCHANGED <<now, episodes, files, embedding_gen, api_key, cache, calls>>

\* episode.add_attempt(short_desc, error_type, error_line, success)
AddAttempt(obj, short_desc, error_type, error_line, success) ==
  /\ reply = Idle
  /\ Len(heap[obj].attempts) < MaxAttempts
  /\ heap' = [heap EXCEPT ![obj].attempts =
                add_attempt(@, short_desc, error_type, error_line, success)]
  /\ reply' = [op |-> "add_attempt", obj |-> obj]
  /\ UNCHANGED <<now, episodes, files, embedding_gen, api_key, cache, calls>>

\* episode.get_failures(limit)
GetFailures(obj, limit) ==
  /\ reply = Idle
  /\ reply' = [op |-> "get_failures", obj |-> obj, limit |-> limit,
               val |-> get_failures(heap[obj].attempts, limit)]
  /\ UNCHANGED <<now, heap, episodes, files, embedding_gen, api_key, cache, calls>>

\* episode.get_success()
GetSuccess(obj) ==
  /\ reply = Idle
  /\ reply' = [op |-> "get_success", obj |-> obj,
               val |-> get_success(heap[obj].attempts)]
  /\ UNCHANGED <<now, heap, episodes, files, embedding_gen, api_key, cache, calls>>

(***************************************************************************)
(* EpisodeTracker (episode.py).  `episodes` is self._episodes: a dict from *)
(* episode id to the Episode object, here the object's place in the heap.  *)
(***************************************************************************)
EpisodeIds == {EpisodeId(t) : t \in 0..MaxTick}

\* self._episodes[episode_id] = episode
DictSet(d, k, v) == [x \in DOMAIN d \cup {k} |-> IF x = k THEN v ELSE d[x]]

\* del self._episodes[episode_id]
DictDel(d, k) == [x \in DOMAIN d \ {k} |-> d[x]]

\* self._episodes.get(episode_id)
DictGet(d, k) == IF k \in DOMAIN d THEN Some(d[k]) ELSE None

\* tracker.start(task)
Start(task) ==
  /\ reply = Idle
  /\ Len(heap) < MaxEpisodes
  /\ LET episode_id == EpisodeId(now)
         obj == Len(heap) + 1
     IN  /\ heap' = Append(heap, Episode(episode_id, task, now))
         /\ episodes' = DictSet(episodes, episode_id, obj)
         /\ reply' = [op |-> "start", id |-> episode_id, val |-> Some(obj)]
  /\ UNCHANGED <<now, files, embedding_gen, api_key, cache, calls>>

\* tracker.get(episode_id)
Get(episode_id) ==
  /\ reply = Idle
  /\ reply' = [op |-> "get", id |-> episode_id,
               val |-> DictGet(episodes, episode_id)]
  /\ UNCHANGED <<now, heap, episodes, files, embedding_gen, api_key, cache, calls>>

\* end without the del of the registry entry.
End_NoDel(episode_id, result, success, notes) ==
  LET episode == DictGet(episodes, episode_id)
  IN  /\ reply = Idle
      /\ IF episode # None
         THEN /\ heap' = [heap EXCEPT ![episode[1]] =
                            [@ EXCEPT !.final_result = Some(result),
                                      !.final_success = Some(success),
                                      !.notes = notes]]
              /\ UNCHANGED episodes
         ELSE UNCHANGED <<heap, episodes>>
      /\ reply' = [op |-> "end", id |-> episode_id, val |-> episode]
      /\ UNCHANGED <<now, files, embedding_gen, api_key, cache, calls>>

\* tracker.end(episode_id, result, success, notes)
End(episode_id, result, success, notes) ==
  LET episode == DictGet(episodes, episode_id)
  IN  /\ reply = Idle
      /\ IF episode # None
         THEN /\ heap' = [heap EXCEPT ![episode[1]] =
                            [@ EXCEPT !.final_result = Some(result),
                                      !.final_success = Some(success),
                                      !.notes = notes]]
              /\ episodes' = DictDel(episodes, episode_id)
         ELSE UNCHANGED <<heap, episodes>>
      /\ reply' = [op |-> "end", id |-> episode_id, val |-> episode]
      /\ UNCHANGED <<now, files, embedding_gen, api_key, cache, calls>>

(***************************************************************************)
(* Texts (storage.py): str.lower, str.split, str.join, `in`.               *)
(***************************************************************************)
\* c.lower() for the characters of the model's alphabet.
LowerChar(c) == IF c = "A" THEN "a" ELSE IF c = "B" THEN "b" ELSE c

\* s.lower()
Lower(s) == [i \in 1..Len(s) |-> LowerChar(s[i])]

\* s.split(): the maximal runs of non-blank characters, in order.
RECURSIVE SplitFrom(_, _)
SplitFrom(s, word) ==
  IF s = <<>> THEN (IF word = <<>> THEN <<>> ELSE <<word>>)
  ELSE IF Head(s) = " "
       THEN (IF word = <<>> THEN <<>> ELSE <<word>>) \o SplitFrom(Tail(s), <<>>)
       ELSE SplitFrom(Tail(s), Append(word, Head(s)))
Split(s) == SplitFrom(s, <<>>)

\* set(words)
SetOf(seq) == {seq[i] : i \in 1..Len(seq)}

\* " ".join(strs)
RECURSIVE JoinSpace(_)
JoinSpace(strs) ==
  IF strs = <<>> THEN <<>>
  ELSE IF Len(strs) = 1 THEN strs[1]
       ELSE strs[1] \o <<" ">> \o JoinSpace(Tail(strs))

\* word in text
Contains(text, word) ==
  \E i \in 0..(Len(text) - Len(word)) : SubSeq(text, i + 1, i + Len(word)) = word

(***************************************************************************)
(* Experience records and their files.  A record is a dict with string     *)
(* keys; a file holds its JSON text, an object: a set of members, or text  *)
(* that json.load cannot read (valid is FALSE).                            *)
(***************************************************************************)
\* exp.get(key, default)
GetOr(d, k, default) == IF k \in DOMAIN d THEN d[k] ELSE default

\* json.dump(experience, f)
JsonDump(d) == {<<k, d[k]>> : k \in DOMAIN d}

\* json.load(f)
JsonLoad(doc) ==
  [k \in {m[1] : m \in doc} |-> (CHOOSE m \in doc : m[1] = k)[2]]

Experience(task, pattern, keywords, insight, attempts_count, result) ==
  [task |-> task, pattern |-> pattern, keywords |-> keywords,
   insight |-> insight, attempts_count |-> attempts_count, result |-> result]

Experiences ==
  { Experience(S_A, S_empty, <<>>, S_empty, 1, "r1"),
    Experience(S_ab, S_empty, <<S_b>>, S_b, 2, "r2") }

Queries == { <<"a">>, <<"A", " ", "b">>, S_empty }

\* The vectors the remote embedding model answers with.
Vecs == { <<1, 0>>, <<-1, 0>> }

\* What one remote embeddings.create call does: raises (None) or answers.
RemoteResults == {None} \cup {Some(v) : v \in Vecs}

(***************************************************************************)
(* EmbeddingGenerator (storage.py).                                        *)
(***************************************************************************)
LruMaxsize == 256

\* The place of text in the cache (most recently used last), 0 if absent.
CacheAt(c, text) ==
  IF \E i \in 1..Len(c) : c[i].text = text
  THEN CHOOSE i \in 1..Len(c) : c[i].text = text
  ELSE 0

\* c without its place i.
Without(c, i) == SubSeq(c, 1, i - 1) \o SubSeq(c, i + 1, Len(c))

\* embed with a hit that leaves the entry at its place: the cache then
\* evicts in the order of insertion.
embed_NoRefresh(c, text, remote) ==
  LET i == CacheAt(c, text)
  IN  IF i # 0
      THEN [val |-> Some(c[i].vec), cache |-> c, called |-> FALSE]
      ELSE IF remote = None
           THEN [val |-> None, cache |-> c, called |-> TRUE]
           ELSE [val |-> remote,
                 cache |-> Append(IF Len(c) >= LruMaxsize THEN Tail(c) ELSE c,
                                  [text |-> text, vec |-> remote[1]]),
                 called |-> TRUE]

\* @lru_cache(maxsize=256) embed(self, text): a hit answers from the cache
\* and makes the entry the most recent; a miss calls the remote, and only an
\* answer is stored, the least recently used entry making room.
embed(c, text, remote) ==
  LET i == CacheAt(c, text)
  IN  IF i # 0
      THEN [val |-> Some(c[i].vec), cache |-> Append(Without(c, i), c[i]),
            called |-> FALSE]
      ELSE IF remote = None
           THEN [val |-> None, cache |-> c, called |-> TRUE]
           ELSE [val |-> remote,
                 cache |-> Append(IF Len(c) >= LruMaxsize THEN Tail(c) ELSE c,
                                  [text |-> text, vec |-> remote[1]]),
                 called |-> TRUE]

\* embed_search_text(self, text): the remote call, no cache.
embed_search_text(text, remote) == remote

\* ExperienceStorage._get_embedding_gen: the generator is built on first
\* use; EmbeddingGenerator() raises ValueError without the credential, and
\* the attribute then stays None.
get_embedding_gen(gen, key) ==
  IF gen = None THEN (IF key THEN Some("gen") ELSE None) ELSE gen

(***************************************************************************)
(* cosine_similarity and scores.  Scores are fixed-point numbers, in units *)
(* of 1/ScoreUnit.                                                         *)
(***************************************************************************)
ScoreUnit == 100000000

Dot(a, b) == a[1] * b[1] + a[2] * b[2]

\* np.linalg.norm for the vectors of Vecs, whose norms are whole numbers.
Norm(a) == CHOOSE n \in 0..2 : n * n = Dot(a, a)

\* np.dot(a, b) / (norm(a) * norm(b) + 1e-8): with a norm product of 1 the
\* quotient is dot / 1.00000001 = dot * 0.99999999 to the unit's precision;
\* with a zero vector on either side the dot product, and the quotient, is 0.
cosine_similarity(a, b) ==
  IF Norm(a) * Norm(b) = 0 THEN 0 ELSE Dot(a, b) * (ScoreUnit - 1)


(***************************************************************************)
(* ExperienceStorage (storage.py).  `files` is the directory: a dict from  *)
(* file name to the file's JSON text and modification time.                *)
(***************************************************************************)
\* The text without the keywords of the record.
SearchText_NoKeywords(exp) ==
  GetOr(exp, "task", S_empty) \o <<" ">> \o GetOr(exp, "pattern", S_empty)
    \o <<" ">> \o GetOr(exp, "insight", S_empty) \o <<" ">>

\* The text both save and search build from a record:
\* task + " " + pattern + " " + insight + " " + " ".join(keywords)
SearchText(exp) ==
  GetOr(exp, "task", S_empty) \o <<" ">> \o GetOr(exp, "pattern", S_empty)
    \o <<" ">> \o GetOr(exp, "insight", S_empty)
    \o <<" ">> \o JoinSpace(GetOr(exp, "keywords", <<>>))

\* save with the try/except around the embed call left out: the failure of
\* the call ends the save before the file is written.
Save_NoCatch(experience, remote, delay) ==
  LET filename == FileName(now)
      embed_gen == get_embedding_gen(embedding_gen, api_key)
      e == embed(cache, SearchText(experience), remote)
      took == IF embed_gen # None /\ e.called THEN delay ELSE 0
      raised == embed_gen # None /\ e.val = None
      written == IF embed_gen # None
                 THEN DictSet(experience, "embedding", e.val)
                 ELSE experience
  IN  /\ reply = Idle
      /\ now + took <= MaxTick
      /\ embedding_gen' = embed_gen
      /\ cache' = IF embed_gen # None THEN e.cache ELSE cache
      /\ now' = now + took
      /\ files' = IF raised THEN files
                  ELSE DictSet(files, filename,
                               [json |-> JsonDump(written), valid |-> TRUE,
                                mtime |-> now + took])
      /\ reply' = [op |-> "save", val |-> IF raised THEN None ELSE filename]
      /\ UNCHANGED <<heap, episodes, api_key, calls>>

\* save with the embedding computed but not put into the record.
Save_DropsEmbedding(experience, remote, delay) ==
  LET filename == FileName(now)
      embed_gen == get_embedding_gen(embedding_gen, api_key)
      e == embed(cache, SearchText(experience), remote)
      took == IF embed_gen # None /\ e.called THEN delay ELSE 0
  IN  /\ reply = Idle
      /\ now + took <= MaxTick
      /\ embedding_gen' = embed_gen
      /\ cache' = IF embed_gen # None THEN e.cache ELSE cache
      /\ now' = now + took
      /\ files' = DictSet(files, filename,
                          [json |-> JsonDump(experience), valid |-> TRUE,
                           mtime |-> now + took])
      /\ reply' = [op |-> "save", val |-> filename]
      /\ UNCHANGED <<heap, episodes, api_key, calls>>

\* storage.save(experience).  remote is what the embeddings call does if it
\* is made; delay is the time that call takes, so the file is written, and
\* gets its modification time, delay ticks after the name was chosen.
Save(experience, remote, delay) ==
  LET filename == FileName(now)
      embed_gen == get_embedding_gen(embedding_gen, api_key)
      e == embed(cache, SearchText(experience), remote)
      took == IF embed_gen # None /\ e.called THEN delay ELSE 0
      written == IF embed_gen # None
                 THEN DictSet(experience, "embedding", e.val)
                 ELSE experience
  IN  /\ reply = Idle
      /\ now + took <= MaxTick
      /\ embedding_gen' = embed_gen
      /\ cache' = IF embed_gen # None THEN e.cache ELSE cache
      /\ now' = now + took
      /\ files' = DictSet(files, filename,
                          [json |-> JsonDump(written), valid |-> TRUE,
                           mtime |-> now + took])
      /\ reply' = [op |-> "save", val |-> filename]
      /\ UNCHANGED <<heap, episodes, api_key, calls>>

\* The boosts with a word counted only where it is a whole word.
RECURSIVE KeywordScore_WholeWordOnly(_, _, _)
KeywordScore_WholeWordOnly(words, text, boost) ==
  IF words = {} THEN 0
  ELSE LET word == CHOOSE w \in words : TRUE
       IN  (IF Contains(<<" ">> \o text \o <<" ">>, <<" ">> \o word \o <<" ">>)
            THEN boost ELSE 0)
           + KeywordScore_WholeWordOnly(words \ {word}, text, boost)

\* for word in query_words: the boosts of one record's text.
RECURSIVE KeywordScore(_, _, _)
KeywordScore(words, text, boost) ==
  IF words = {} THEN 0
  ELSE LET word == CHOOSE w \in words : TRUE
       IN  (IF Contains(text, word)
            THEN boost + (IF Contains(<<" ">> \o text \o <<" ">>,
                                      <<" ">> \o word \o <<" ">>)
                          THEN boost ELSE 0)
            ELSE 0)
           + KeywordScore(words \ {word}, text, boost)

\* The score with the boost chosen by the record's stored embedding, not by
\* the query's.
Score_BoostByStored(exp, query_words, query_embedding) ==
  LET has_embeddings == query_embedding # None
      stored == GetOr(exp, "embedding", None)
      semantic == IF has_embeddings /\ stored # None
                  THEN Max(0, cosine_similarity(query_embedding[1], stored[1]) * 10)
                  ELSE 0
      boost == IF stored # None THEN ScoreUnit \div 2 ELSE ScoreUnit
  IN  semantic + KeywordScore(query_words, Lower(SearchText(exp)), boost)

\* The score search gives one loaded record.
Score(exp, query_words, query_embedding) ==
  LET has_embeddings == query_embedding # None
      stored == GetOr(exp, "embedding", None)
      semantic == IF has_embeddings /\ stored # None
                  THEN Max(0, cosine_similarity(query_embedding[1], stored[1]) * 10)
                  ELSE 0
      boost == IF has_embeddings THEN ScoreUnit \div 2 ELSE ScoreUnit
  IN  semantic + KeywordScore(query_words, Lower(SearchText(exp)), boost)

\* list.sort(key, reverse=True) and sorted(..., reverse=True): descending
\* and stable.  The items are records with a key field.
\* An insertion that puts x before the items of equal key: not stable.
InsertDesc_Unstable(sorted, x) ==
  LET k == Cardinality({i \in 1..Len(sorted) : sorted[i].key > x.key})
  IN  SubSeq(sorted, 1, k) \o <<x>> \o SubSeq(sorted, k + 1, Len(sorted))

InsertDesc(sorted, x) ==
  LET k == Cardinality({i \in 1..Len(sorted) : sorted[i].key >= x.key})
  IN  SubSeq(sorted, 1, k) \o <<x>> \o SubSeq(sorted, k + 1, Len(sorted))

RECURSIVE SortDesc(_)
SortDesc(seq) ==
  IF seq = <<>> THEN <<>>
  ELSE InsertDesc(SortDesc(SubSeq(seq, 1, Len(seq) - 1)), seq[Len(seq)])

\* The orders in which storage_dir.glob("exp_*.json") may list the files.
GlobOrdersOf(dir) ==
  {order \in [1..Cardinality(DOMAIN dir) -> DOMAIN dir] :
     \A i, j \in DOMAIN order : i # j => order[i] # order[j]}
GlobOrders == GlobOrdersOf(files)

\* The loop of search over the files: the (score, record) pairs kept.  A
\* file json.load cannot read is passed over (except ...: continue).
RECURSIVE Scan(_, _, _, _)
Scan(dir, order, query_words, query_embedding) ==
  IF order = <<>> THEN <<>>
  ELSE (IF dir[Head(order)].valid
           /\ Score(JsonLoad(dir[Head(order)].json),
                    query_words, query_embedding) > 0
        THEN <<[key |-> Score(JsonLoad(dir[Head(order)].json),
                              query_words, query_embedding),
                file |-> Head(order)]>>
        ELSE <<>>)
       \o Scan(dir, Tail(order), query_words, query_embedding)

Names(items) == [i \in 1..Len(items) |-> items[i].file]

\* query_words = set(query.lower().split())
QueryWords(query) == SetOf(Split(Lower(query)))

\* The scan, sort and cut of search, once the query embedding is settled.
\* A returned record is named by the file it was loaded from.
search(dir, query, limit, query_embedding, order) ==
  Names(PySliceTo(SortDesc(Scan(dir, order, QueryWords(query), query_embedding)),
                  limit))

\* The loop of get_recent over files[:limit]: a file json.load cannot read
\* is passed over.
RECURSIVE LoadEach(_, _)
LoadEach(dir, names) ==
  IF names = <<>> THEN <<>>
  ELSE (IF dir[Head(names)].valid THEN <<Head(names)>> ELSE <<>>)
       \o LoadEach(dir, Tail(names))

\* get_recent: the files sorted by st_mtime, reverse=True, cut to
\* files[:limit], each loaded.
get_recent(dir, limit, order) ==
  LoadEach(dir,
           Names(PySliceTo(SortDesc([i \in 1..Len(order) |->
                                       [key |-> dir[order[i]].mtime,
                                        file |-> order[i]]]),
                           limit)))

\* storage.search(query, limit, semantic).  remote is what the embeddings
\* call for the query does if it is made, order the directory listing.
\* The reply also tells whether that call was made, and what it did.
Search(query, limit, semantic, remote, order) ==
  LET embed_gen == IF semantic THEN get_embedding_gen(embedding_gen, api_key)
                   ELSE embedding_gen
      query_embedding == IF semantic /\ embed_gen # None
                         THEN embed_search_text(query, remote)
                         ELSE None
  IN  /\ reply = Idle
      /\ embedding_gen' = embed_gen
      /\ reply' = [op |-> "search", query |-> query, limit |-> limit,
                   semantic |-> semantic,
                   called |-> IF semantic /\ embed_gen # None
                              THEN Some(remote) ELSE None,
                   query_embedding |-> query_embedding, order |-> order,
                   val |-> search(files, query, limit, query_embedding, order)]
      /\ UNCHANGED <<now, heap, episodes, files, api_key, cache, calls>>

\* storage.get_recent(limit)
GetRecent(limit, order) ==
      /\ reply = Idle
      /\ reply' = [op |-> "get_recent", limit |-> limit, order |-> order,
                   val |-> get_recent(files, limit, order)]
      /\ UNCHANGED <<now, heap, episodes, files, embedding_gen, api_key, cache, calls>>


(***************************************************************************)
(* Initial states and specifications.  Episode, EpisodeTracker and         *)
(* ExperienceStorage share no state, so each class has its specification:  *)
(* SpecEpisode (one Episode object and its methods), SpecTracker (the      *)
(* registry) and SpecStore (the store and its embedding generator).        *)
(* Further down: SpecSummary (extract_error_summary), SpecServer (the tool *)
(* handlers over tracker and store), SpecThreads (the tracker called from  *)
(* several threads), SpecKimi (to_kimi_input), SpecRecent (the store with *)
(* unreadable files), SpecCache (the cache of EmbeddingGenerator.embed)    *)
(* and SpecMany (several episodes under every operation).                  *)
(***************************************************************************)
EmptyDict == [x \in {} |-> None]

\* tracker = EpisodeTracker(); storage = ExperienceStorage(); the credential
\* OPENROUTER_API_KEY is set or not in the environment of the process.
Init ==
  /\ now = 0
  /\ heap = <<>>
  /\ episodes = EmptyDict
  /\ files = EmptyDict
  /\ embedding_gen = None
  /\ api_key \in BOOLEAN
  /\ cache = <<>>
  /\ reply = Idle
  /\ calls = [t \in Threads |-> NoCall]

\* The tracker alone: it never reads the credential.
InitTracker == Init /\ api_key = FALSE

\* One Episode constructed by the caller, no tracker involved.
InitEpisode ==
  /\ now = 0
  /\ \E task \in Tasks : heap = <<Episode(EpisodeId(0), task, 0)>>
  /\ episodes = EmptyDict
  /\ files = EmptyDict
  /\ embedding_gen = None
  /\ api_key = FALSE
  /\ cache = <<>>
  /\ reply = Idle
  /\ calls = [t \in Threads |-> NoCall]

NextEpisode ==
  \/ Return
  \/ \E obj \in Objects, short_desc \in ShortDescs, error_type \in ErrorTypes,
        error_line \in ErrorLines, success \in BOOLEAN :
       AddAttempt(obj, short_desc, error_type, error_line, success)
  \/ \E obj \in Objects, limit \in 0..MaxLimit : GetFailures(obj, limit)
  \/ \E obj \in Objects : GetSuccess(obj)

SpecEpisode == InitEpisode /\ [][NextEpisode]_vars

NextTracker ==
  \/ Return
  \/ Tick
  \/ \E task \in Tasks : Start(task)
  \/ \E episode_id \in EpisodeIds : Get(episode_id)
  \/ \E episode_id \in EpisodeIds, result \in Results, success \in BOOLEAN,
        notes \in NotesArgs : End(episode_id, result, success, notes)

SpecTracker == InitTracker /\ [][NextTracker]_vars

NextStore ==
  \/ Return
  \/ Tick
  \/ \E experience \in Experiences, remote \in RemoteResults,
        delay \in 0..MaxEmbedDelay : Save(experience, remote, delay)
  \/ \E query \in Queries, limit \in 0..MaxLimit, semantic \in BOOLEAN,
        remote \in RemoteResults, order \in GlobOrders :
       Search(query, limit, semantic, remote, order)
  \/ \E limit \in 0..MaxLimit, order \in GlobOrders : GetRecent(limit, order)

SpecStore == Init /\ [][NextStore]_vars

(***************************************************************************)
(* Claims about the tracker and the episode.                               *)
(***************************************************************************)

\* C1: the first end(id) of a registered id returns the episode and removes
\* exactly that id from the registry in the same step; an end(id) of an id
\* that is not registered returns None and changes neither the registry nor
\* any episode object (so not the final fields of an ended one); and an id
\* enters the registry only by a start that allocates it.
C1_EndOnce ==
  [][ /\ \A episode_id \in EpisodeIds, result \in Results,
            success \in BOOLEAN, notes \in NotesArgs :
           End(episode_id, result, success, notes) =>
             IF episode_id \in DOMAIN episodes
             THEN /\ reply'.val = Some(episodes[episode_id])
                  /\ DOMAIN episodes' = DOMAIN episodes \ {episode_id}
                  /\ heap'[episodes[episode_id]].final_success = Some(success)
             ELSE /\ reply'.val = None
                  /\ episodes' = episodes
                  /\ heap' = heap
      /\ \A episode_id \in EpisodeIds :
           (episode_id \notin DOMAIN episodes /\ episode_id \in DOMAIN episodes')
             => \E task \in Tasks : Start(task) /\ episode_id = EpisodeId(now)
    ]_vars

\* A second end of an id that was ended before and not started again.
C1_Witness ==
  /\ reply.op = "end"
  /\ reply.val = None
  /\ reply.id \notin DOMAIN episodes
  /\ \E obj \in Objects :
       heap[obj].id = reply.id /\ heap[obj].final_success # None

\* C3: every start allocates an id that no episode started before by this
\* tracker has, so it replaces no registered episode and the registry grows
\* by exactly one.
C3_FreshId ==
  [][ \A task \in Tasks :
        Start(task) =>
          /\ \A obj \in Objects : heap[obj].id # EpisodeId(now)
          /\ \A k \in DOMAIN episodes :
               k \in DOMAIN episodes' /\ episodes'[k] = episodes[k]
          /\ Cardinality(DOMAIN episodes') = Cardinality(DOMAIN episodes) + 1
    ]_vars

\* The places of the failed attempts, and the last n of them.
FailedAt(attempts) == {i \in 1..Len(attempts) : ~attempts[i].success}
LastFailedAt(attempts, n) ==
  {i \in FailedAt(attempts) :
     Cardinality({j \in FailedAt(attempts) : j > i}) < n}

\* val is the attempts at the places K, in increasing order of place.
IsSelection(val, attempts, K) ==
  /\ Len(val) = Cardinality(K)
  /\ \A k \in 1..Len(val) :
       \E i \in K : /\ Cardinality({j \in K : j < i}) = k - 1
                    /\ val[k] = attempts[i]

\* C4: get_failures(limit) is exactly the last min(limit, F) failed
\* attempts in insertion order, for every limit >= 0 (empty for limit 0).
C4_LastFailures ==
  reply.op = "get_failures" =>
    IsSelection(reply.val, heap[reply.obj].attempts,
                LastFailedAt(heap[reply.obj].attempts, reply.limit))

\* C5: get_success is the most recently added successful attempt, and None
\* exactly when the episode has no successful attempt.
C5_LastSuccess ==
  reply.op = "get_success" =>
    LET attempts == heap[reply.obj].attempts
        S == {i \in 1..Len(attempts) : attempts[i].success}
    IN  IF S = {} THEN reply.val = None
        ELSE /\ reply.val # None
             /\ \E i \in S : /\ \A j \in S : j <= i
                             /\ reply.val = Some(attempts[i])

\* Two different successful attempts, then a failure, then get_success.
C5_Witness ==
  /\ reply.op = "get_success"
  /\ reply.val # None
  /\ LET attempts == heap[reply.obj].attempts
     IN  \E i, j, k \in 1..Len(attempts) :
           /\ i < j /\ j < k
           /\ attempts[i].success /\ attempts[j].success /\ ~attempts[k].success
           /\ attempts[i] # attempts[j]

(***************************************************************************)
(* Claims about the experience store.                                      *)
(***************************************************************************)
Loaded(dir, f) == JsonLoad(dir[f].json)
HasVector(exp) == GetOr(exp, "embedding", None) # None
TextFields ==
  {"task", "pattern", "keywords", "insight", "attempts_count", "result"}
SameFields(exp, experience) ==
  \A k \in TextFields : k \in DOMAIN exp /\ exp[k] = experience[k]

\* C2: every save creates a file under a name no earlier save used, and
\* leaves every file written before as it was.
C2_NewFileEachSave ==
  [][ \A experience \in Experiences, remote \in RemoteResults,
         delay \in 0..MaxEmbedDelay :
        Save(experience, remote, delay) =>
          /\ FileName(now) \notin DOMAIN files
          /\ \A f \in DOMAIN files : f \in DOMAIN files' /\ files'[f] = files[f]
    ]_vars

\* C6: every save returns the file name and writes the record with all its
\* textual fields; when no provider can be built, or the embed call fails,
\* the record written has no embedding vector.
C6_SaveSurvivesEmbedding ==
  [][ \A experience \in Experiences, remote \in RemoteResults,
         delay \in 0..MaxEmbedDelay :
        Save(experience, remote, delay) =>
          LET filename == FileName(now)
              provider == embedding_gen' # None
              embed_failed == /\ provider
                              /\ CacheAt(cache, SearchText(experience)) = 0
                              /\ remote = None
          IN  /\ reply'.val = filename
              /\ filename \in DOMAIN files'
              /\ SameFields(Loaded(files', filename), experience)
              /\ (~provider \/ embed_failed)
                   => ~HasVector(Loaded(files', filename))
    ]_vars

\* A save whose embed call failed has written its record, embedding null.
C6_Witness ==
  /\ reply.op = "save"
  /\ "embedding" \in DOMAIN Loaded(files, reply.val)
  /\ Loaded(files, reply.val)["embedding"] = None

\* C7 as claimed: the record written carries a vector iff a provider was
\* available at the save.
C7_VectorIffProvider ==
  [][ \A experience \in Experiences, remote \in RemoteResults,
         delay \in 0..MaxEmbedDelay :
        Save(experience, remote, delay) =>
          (HasVector(Loaded(files', FileName(now))) <=> embedding_gen' # None)
    ]_vars

\* C7 amended: the record written carries a vector iff a provider was
\* available at the save and its embed call answered (from the cache or
\* from the remote).
C7_VectorIffEmbedded ==
  [][ \A experience \in Experiences, remote \in RemoteResults,
         delay \in 0..MaxEmbedDelay :
        Save(experience, remote, delay) =>
          (HasVector(Loaded(files', FileName(now)))
             <=> /\ embedding_gen' # None
                 /\ \/ CacheAt(cache, SearchText(experience)) # 0
                    \/ remote # None)
    ]_vars

\* A save with a provider has written a record that carries a vector.
C7_Witness ==
  /\ reply.op = "save"
  /\ embedding_gen # None
  /\ HasVector(Loaded(files, reply.val))

\* C8: right after save(record), get_recent(1) is the one record just
\* saved, whatever the order the directory is listed in.
C8_RoundTrip ==
  [][ \A experience \in Experiences, remote \in RemoteResults,
         delay \in 0..MaxEmbedDelay :
        Save(experience, remote, delay) =>
          \A order \in GlobOrdersOf(files') :
            LET got == get_recent(files', 1, order)
            IN  /\ Len(got) = 1
                /\ SameFields(Loaded(files', got[1]), experience)
    ]_vars

\* The number of boosts a record earns: one for each query word that is a
\* substring of its text, one more for each that is a whole word of it.
Boosts(exp, query) ==
  LET text == Lower(SearchText(exp))
      padded == <<" ">> \o text \o <<" ">>
  IN  Cardinality({w \in QueryWords(query) : Contains(text, w)})
      + Cardinality({w \in QueryWords(query) :
                       Contains(text, w) /\ Contains(padded, <<" ">> \o w \o <<" ">>)})

\* val is the first min(limit, m) of the m files of positive score sc, by
\* descending score, files of equal score in the order of the listing.
IsTopPrefix(val, sc, order, limit) ==
  LET P == {f \in DOMAIN sc : sc[f] > 0}
      pos(f) == CHOOSE i \in 1..Len(order) : order[i] = f
      Before(f, g) == sc[f] > sc[g] \/ (sc[f] = sc[g] /\ pos(f) < pos(g))
  IN  /\ Len(val) = Min(limit, Cardinality(P))
      /\ \A i \in 1..Len(val) : val[i] \in P
      /\ \A i, j \in 1..Len(val) : i < j => Before(val[i], val[j])
      /\ \A f \in P \ SetOf(val) : \A i \in 1..Len(val) : Before(val[i], f)

\* The premise of C9, of the search that `reply` answers: semantic was
\* false, or no provider could be built, or the call for the query failed.
Degraded ==
  /\ reply.op = "search"
  /\ \/ ~reply.semantic
     \/ embedding_gen = None
     \/ reply.called = Some(None)

\* What that search did apart from what it returned: it ended without a
\* query embedding and scored every record by its boosts at 1.0 each, the
\* stored embedding ignored.
KeywordOnly ==
  /\ reply.query_embedding = None
  /\ \A f \in DOMAIN files :
       Score(Loaded(files, f), QueryWords(reply.query), reply.query_embedding)
         = ScoreUnit * Boosts(Loaded(files, f), reply.query)

\* C9 as claimed: a degraded search returns exactly the keyword-matching
\* records.
C9_AllKeywordMatches ==
  Degraded =>
    /\ KeywordOnly
    /\ SetOf(reply.val)
         = {f \in DOMAIN files : Boosts(Loaded(files, f), reply.query) > 0}

\* C9 amended: a degraded search returns the first min(limit, m) of the m
\* keyword-matching records, ranked by the keyword score.
C9_TopKeywordMatches ==
  Degraded =>
    /\ KeywordOnly
    /\ IsTopPrefix(reply.val,
                   [f \in DOMAIN files |-> Boosts(Loaded(files, f), reply.query)],
                   reply.order, reply.limit)

\* A search whose query embedding call failed, over a corpus with a stored
\* vector, has returned that record, and fewer records than match.
C9_Witness ==
  /\ reply.op = "search"
  /\ reply.called = Some(None)
  /\ \E i \in 1..Len(reply.val) : HasVector(Loaded(files, reply.val[i]))
  /\ Len(reply.val) = reply.limit
  /\ Cardinality({f \in DOMAIN files :
                    Boosts(Loaded(files, f), reply.query) > 0}) > reply.limit

\* The scores of the search that `reply` answers.
ReplyScores ==
  [f \in DOMAIN files |->
     Score(Loaded(files, f), QueryWords(reply.query), reply.query_embedding)]

\* C10: search returns at most limit records, each of score > 0, in
\* non-increasing score order with ties in scan order, and they are the
\* first limit of all the records of positive score in that order.
C10_TopLimit ==
  reply.op = "search" =>
    /\ Len(reply.val) <= reply.limit
    /\ IsTopPrefix(reply.val, ReplyScores, reply.order, reply.limit)

\* A semantic search cut at limit 1 that left out a record of the same
\* score as the one returned.
C10_Witness ==
  /\ reply.op = "search"
  /\ reply.query_embedding # None
  /\ reply.limit = 1 /\ Len(reply.val) = 1
  /\ \E f \in DOMAIN files :
       f # reply.val[1] /\ ReplyScores[f] = ReplyScores[reply.val[1]]

\* The records that exp becomes when the value w is added to it as a new
\* field value: as one more keyword, or as the value of a text field that
\* was empty.
Additions(exp, w) ==
  {[exp EXCEPT !["keywords"] = Append(@, w)]}
    \cup {[exp EXCEPT ![k] = w] : k \in {j \in {"pattern", "insight"} :
                                           exp[j] = S_empty}}

\* The scores a keyword-only search for query gives the records of dir.
KeywordScores(dir, query) ==
  [f \in DOMAIN dir |-> Score(Loaded(dir, f), QueryWords(query), None)]

\* C11: in keyword-only mode, for a record whose text does not contain a
\* word of the query, adding that word as a new field value of the record
\* strictly increases the record's score and leaves the score of every
\* other record as it was; the record is then among the matches.
C11_AddedWordRaisesScore ==
  (reply.op = "search" /\ reply.query_embedding = None) =>
    \A f \in DOMAIN files, w \in SetOf(Split(reply.query)) :
      ~Contains(Lower(SearchText(Loaded(files, f))), Lower(w)) =>
        \A exp2 \in Additions(Loaded(files, f), w) :
          LET dir2 == [files EXCEPT ![f].json = JsonDump(exp2)]
              before == KeywordScores(files, reply.query)
              after == KeywordScores(dir2, reply.query)
          IN  /\ after[f] > before[f]
              /\ \A g \in DOMAIN files \ {f} : after[g] = before[g]
              /\ f \in SetOf(search(dir2, reply.query, Cardinality(DOMAIN dir2),
                                    None, reply.order))

\* A keyword-only search over two records that both match, one of them
\* without one of the words of the query.
C11_Witness ==
  /\ reply.op = "search"
  /\ reply.query_embedding = None
  /\ \E f, g \in DOMAIN files :
       /\ f # g
       /\ KeywordScores(files, reply.query)[f] > 0
       /\ KeywordScores(files, reply.query)[g] > 0
       /\ \E w \in SetOf(Split(reply.query)) :
            ~Contains(Lower(SearchText(Loaded(files, f))), Lower(w))

(***************************************************************************)
(* extract_error_summary (episode.py).  A text is the sequence of its      *)
(* lines, the empty string the text of no lines.  A line is given by what  *)
(* the two patterns find in it: `error` is group 1 of error_pattern on the *)
(* stripped line, `frame` the path (a sequence of components) and the line *)
(* number that line_pattern finds, `blank` tells a line of white space.    *)
(***************************************************************************)
MaxPad == 10
ErrorWindow == 10

Line(error, frame, blank) == [error |-> error, frame |-> frame, blank |-> blank]

L_blank == Line(None, None, TRUE)
L_plain == Line(None, None, FALSE)
L_timeout == Line(Some("TimeoutError"), None, FALSE)
L_key == Line(Some("KeyException"), None, FALSE)
L_main == Line(None, Some(<<<<"src", "main.py">>, 42>>), FALSE)
L_lib == Line(None, Some(<<<<"lib.py">>, 7>>), FALSE)

StderrLines == {L_blank, L_plain, L_timeout, L_key, L_main, L_lib}

\* The texts of at most two lines.
ShortTexts == UNION {[1..n -> StderrLines] : n \in 0..2}

\* n lines in which neither pattern finds anything.
Pad(n) == [i \in 1..n |-> L_plain]

\* The texts given to extract_error_summary: two short texts with a run of
\* plain lines between them.
StderrTexts ==
  {a \o Pad(n) \o b : a \in ShortTexts, b \in ShortTexts, n \in 0..MaxPad}

\* stderr.strip().split("\n"): the white space at both ends goes, and with
\* it the blank lines there; what is left of a blank text is one empty line.
RECURSIVE LStrip(_)
LStrip(lines) ==
  IF lines # <<>> /\ Head(lines).blank THEN LStrip(Tail(lines)) ELSE lines

RECURSIVE RStrip(_)
RStrip(lines) ==
  IF lines # <<>> /\ lines[Len(lines)].blank
  THEN RStrip(SubSeq(lines, 1, Len(lines) - 1))
  ELSE lines

StripSplit(stderr) ==
  IF RStrip(LStrip(stderr)) = <<>> THEN <<L_blank>> ELSE RStrip(LStrip(stderr))

\* for line in reversed(lines): the first match of error_pattern.
RECURSIVE LastError(_)
LastError(lines) ==
  IF lines = <<>> THEN None
  ELSE IF lines[Len(lines)].error # None THEN lines[Len(lines)].error
       ELSE LastError(SubSeq(lines, 1, Len(lines) - 1))

\* for line in lines: the first match of line_pattern.
RECURSIVE FirstFrame(_)
FirstFrame(lines) ==
  IF lines = <<>> THEN None
  ELSE IF Head(lines).frame # None THEN Head(lines).frame
       ELSE FirstFrame(Tail(lines))

\* The names bound in the module episode.py when the function runs: those
\* it imports and those it defines.
ModuleNames ==
  {"re", "dataclass", "field", "datetime", "TYPE_CHECKING",
   "Attempt", "Episode", "EpisodeTracker", "extract_error_summary"}

\* Path(path).name
PathName(path) == path[Len(path)]

\* A call's outcome: the exception raised, or the value returned.
Raised(exc) == [raised |-> Some(exc), val |-> None]
Returned(val) == [raised |-> None, val |-> Some(val)]

\* extract_error_summary(stderr)
extract_error_summary(stderr) ==
  IF stderr = <<>> THEN Returned(<<None, None>>)
  ELSE LET lines == StripSplit(stderr)
           error_type == LastError(PySliceFrom(lines, 0 - ErrorWindow))
           match == FirstFrame(lines)
       IN  IF match = None THEN Returned(<<error_type, None>>)
           ELSE IF "Path" \notin ModuleNames THEN Raised("NameError")
           ELSE Returned(<<error_type,
                           Some(<<PathName(match[1][1]), match[1][2]>>)>>)

\* A call of extract_error_summary(stderr).
ExtractErrorSummary(stderr) ==
  /\ reply = Idle
  /\ reply' = [op |-> "extract_error_summary", stderr |-> stderr,
               out |-> extract_error_summary(stderr)]
  /\ UNCHANGED <<now, heap, episodes, files, embedding_gen, api_key, cache, calls>>

NextSummary ==
  \/ Return
  \/ \E stderr \in StderrTexts : ExtractErrorSummary(stderr)

SpecSummary == InitTracker /\ [][NextSummary]_vars

(***************************************************************************)
(* Claims about extract_error_summary.                                     *)
(***************************************************************************)
HasError(lines) == \E i \in 1..Len(lines) : lines[i].error # None
HasFrame(lines) == \E i \in 1..Len(lines) : lines[i].frame # None

\* C14: extract_error_summary raises for no text; a text in which
\* error_pattern matches no line gives no error type, a text in which
\* line_pattern matches no line gives no location, a text with a frame
\* reference gives a location, and the empty text gives (None, None).
C14_NeverRaises ==
  reply.op = "extract_error_summary" =>
    /\ reply.out.raised = None
    /\ ~HasError(reply.stderr) => reply.out.val[1][1] = None
    /\ ~HasFrame(reply.stderr) => reply.out.val[1][2] = None
    /\ HasFrame(reply.stderr) => reply.out.val[1][2] # None
    /\ reply.stderr = <<>> => reply.out.val = Some(<<None, None>>)

\* The error line closest to the end among the last ErrorWindow lines, and
\* the first frame reference of all lines, of the lines the function reads.
ExpectedKind(lines) ==
  LET n == Len(lines)
      W == {i \in 1..n : i > n - ErrorWindow /\ lines[i].error # None}
  IN  IF W = {} THEN None
      ELSE lines[CHOOSE i \in W : \A j \in W : j <= i].error

ExpectedLocation(lines) ==
  LET F == {i \in 1..Len(lines) : lines[i].frame # None}
  IN  IF F = {} THEN None
      ELSE LET m == lines[CHOOSE i \in F : \A j \in F : i <= j].frame[1]
           IN  Some(<<m[1][Len(m[1])], m[2]>>)

\* C15: for a text that is not empty, extract_error_summary returns the
\* identifier of the error line closest to the end among the last 10 lines
\* (None if none of these is an error line), and basename(path):line of the
\* first frame reference in forward order over all lines.
C15_KindAndLocation ==
  (reply.op = "extract_error_summary" /\ reply.stderr # <<>>) =>
    reply.out = Returned(<<ExpectedKind(StripSplit(reply.stderr)),
                           ExpectedLocation(StripSplit(reply.stderr))>>)

(***************************************************************************)
(* Episode.to_kimi_input (episode.py) and extract_experience               *)
(* (summarizer.py).                                                        *)
(***************************************************************************)
DefaultFailuresLimit == 5

\* x or default, for an optional string x: None and "" are both falsy.
OrElse(x, default) == IF x = None \/ x = Some("") THEN default ELSE x[1]

\* to_kimi_input with every failed attempt, not the last ones only.
to_kimi_input_AllFailures(episode) ==
  LET failures == FailedAttempts(episode.attempts)
      success == get_success(episode.attempts)
  IN  [task |-> episode.task,
       failures |-> [i \in 1..Len(failures) |->
                       [desc |-> failures[i].short_desc,
                        error |-> OrElse(failures[i].error_type, "unknown")]],
       success |-> IF success # None
                   THEN Some([desc |-> success[1].short_desc,
                              result |-> OrElse(episode.final_result, "completed")])
                   ELSE None]

\* episode.to_kimi_input()
to_kimi_input(episode) ==
  LET failures == get_failures(episode.attempts, DefaultFailuresLimit)
      success == get_success(episode.attempts)
  IN  [task |-> episode.task,
       failures |-> [i \in 1..Len(failures) |->
                       [desc |-> failures[i].short_desc,
                        error |-> OrElse(failures[i].error_type, "unknown")]],
       success |-> IF success # None
                   THEN Some([desc |-> success[1].short_desc,
                              result |-> OrElse(episode.final_result, "completed")])
                   ELSE None]

\* What the chat completion call of extract_experience does: it raises, or
\* answers with text that is empty, that json.loads cannot read, or that is
\* the JSON object val.
Llm(kind, val) == [kind |-> kind, val |-> val]

Extracted == [pattern |-> S_b, keywords |-> <<S_b>>, insight |-> S_empty]

LlmResults ==
  {Llm("raises", None), Llm("empty", None), Llm("not_json", None),
   Llm("json", Some(Extracted))}

\* extract_experience without the check of the credential.
extract_experience_NoKeyCheck(episode_data, key, llm) ==
  IF llm.kind \in {"raises", "empty"} THEN Raised("UnboundLocalError")
  ELSE IF llm.kind = "not_json" THEN Raised("RuntimeError")
  ELSE Returned(llm.val[1])

\* extract_experience(episode_data): ValueError without the credential.  In
\* the try block `import json` comes after the call and the check for empty
\* content, so when one of these raises the clause except json.JSONDecodeError
\* reads a local name not bound yet; json.loads failing is turned into a
\* RuntimeError.
extract_experience(episode_data, key, llm) ==
  IF ~key THEN Raised("ValueError")
  ELSE IF llm.kind \in {"raises", "empty"} THEN Raised("UnboundLocalError")
  ELSE IF llm.kind = "not_json" THEN Raised("RuntimeError")
  ELSE Returned(llm.val[1])

(***************************************************************************)
(* The tool handlers of call_tool (server.py), on the tracker and the      *)
(* storage of the process.  A handler's reply is the text it returns, here *)
(* the name of the one of its return statements that was taken, or the     *)
(* exception that leaves the handler.                                      *)
(***************************************************************************)
DefaultPullLimit == 5

ServerTasks == {S_A}
ServerDescs == {"d1"}
ServerNotes == {Some("n1")}
ServerRemotes == {Some(<<1, 0>>)}
PullLimits == {None, Some(1)}

\* The log_attempt calls: success with error_output absent, empty, plain
\* text, an error line, or a traceback.
LogCall(error_output, success) ==
  [error_output |-> error_output, success |-> success]
LogCalls ==
  {LogCall(None, TRUE), LogCall(None, FALSE), LogCall(Some(<<>>), FALSE),
   LogCall(Some(<<L_plain>>), FALSE), LogCall(Some(<<L_timeout>>), FALSE),
   LogCall(Some(<<L_main, L_timeout>>), FALSE)}

\* The ids a caller passes: those start_episode has given out, and one that
\* no episode ever had.
CallerIds == {heap[obj].id : obj \in Objects} \cup {EpisodeId(0 - 1)}

MaxLogged == 2

\* The number of attempts logged so far, over all episodes.
RECURSIVE Logged(_)
Logged(h) ==
  IF h = <<>> THEN 0 ELSE Len(Head(h).attempts) + Logged(Tail(h))

\* call_tool("start_episode", {task})
start_episode(task) ==
  /\ reply = Idle
  /\ Len(heap) < MaxEpisodes
  /\ LET episode_id == EpisodeId(now)
         obj == Len(heap) + 1
     IN  /\ heap' = Append(heap, Episode(episode_id, task, now))
         /\ episodes' = DictSet(episodes, episode_id, obj)
         /\ reply' = [op |-> "start_episode", id |-> episode_id,
                      out |-> Returned("Episode started")]
  /\ UNCHANGED <<now, files, embedding_gen, api_key, cache, calls>>

\* call_tool("log_attempt", {episode_id, short_desc, error_output, success}):
\* error_output is None when the argument is not given.
log_attempt(episode_id, short_desc, error_output, success) ==
  LET episode == DictGet(episodes, episode_id)
      summary == IF error_output # None /\ error_output[1] # <<>>
                 THEN extract_error_summary(error_output[1])
                 ELSE Returned(<<None, None>>)
  IN  /\ reply = Idle
      /\ Logged(heap) < MaxLogged
      /\ IF episode = None
         THEN /\ reply' = [op |-> "log_attempt", id |-> episode_id,
                           out |-> Returned("Error: not found")]
              /\ UNCHANGED heap
         ELSE IF summary.raised # None
         THEN /\ reply' = [op |-> "log_attempt", id |-> episode_id,
                           out |-> Raised(summary.raised[1])]
              /\ UNCHANGED heap
         ELSE /\ heap' = [heap EXCEPT ![episode[1]].attempts =
                            add_attempt(@, short_desc, summary.val[1][1],
                                        summary.val[1][2], success)]
              /\ reply' = [op |-> "log_attempt", id |-> episode_id,
                           out |-> Returned("Logged")]
      /\ UNCHANGED <<now, episodes, files, embedding_gen, api_key, cache, calls>>

\* The dict end_episode builds from the episode and the extracted fields.
BuildExperience(episode, extracted, result) ==
  [id |-> episode.id, task |-> episode.task,
   pattern |-> GetOr(extracted, "pattern", S_empty),
   keywords |-> GetOr(extracted, "keywords", <<>>),
   insight |-> GetOr(extracted, "insight", S_empty),
   attempts_count |-> Len(episode.attempts),
   result |-> result, created_at |-> episode.created_at]

\* end_episode that keeps the episode registered when the extraction fails,
\* so that the call can be made again.
end_episode_KeepFailed(episode_id, result, success, notes, llm, remote, delay) ==
  LET found == DictGet(episodes, episode_id)
      ended == [heap EXCEPT ![found[1]] =
                  [@ EXCEPT !.final_result = Some(result),
                            !.final_success = Some(success),
                            !.notes = notes]]
      episode == ended[found[1]]
      extraction == extract_experience(to_kimi_input(episode), api_key, llm)
      experience == BuildExperience(episode, extraction.val[1], result)
      filename == FileName(now)
      embed_gen == get_embedding_gen(embedding_gen, api_key)
      e == embed(cache, SearchText(experience), remote)
      took == IF embed_gen # None /\ e.called THEN delay ELSE 0
      written == IF embed_gen # None
                 THEN DictSet(experience, "embedding", e.val)
                 ELSE experience
  IN  /\ reply = Idle
      /\ IF found = None
         THEN /\ reply' = [op |-> "end_episode", id |-> episode_id,
                           llm |-> None, file |-> None,
                           out |-> Returned("Error: not found")]
              /\ UNCHANGED <<now, heap, episodes, files, embedding_gen, cache>>
         ELSE /\ heap' = ended
              /\ episodes' = IF success /\ extraction.raised # None
                           THEN episodes
                           ELSE DictDel(episodes, episode_id)
              /\ IF ~success
                 THEN /\ reply' = [op |-> "end_episode", id |-> episode_id,
                                   llm |-> None, file |-> None,
                                   out |-> Returned("No experience extracted")]
                      /\ UNCHANGED <<now, files, embedding_gen, cache>>
                 ELSE IF extraction.raised # None
                 THEN /\ reply' = [op |-> "end_episode", id |-> episode_id,
                                   llm |-> Some(llm.kind), file |-> None,
                                   out |-> Returned(
                                     IF extraction.raised = Some("ValueError")
                                     THEN "NOT saved: configuration"
                                     ELSE "NOT saved: error")]
                      /\ UNCHANGED <<now, files, embedding_gen, cache>>
                 ELSE /\ now + took <= MaxTick
                      /\ embedding_gen' = embed_gen
                      /\ cache' = IF embed_gen # None THEN e.cache ELSE cache
                      /\ now' = now + took
                      /\ files' = DictSet(files, filename,
                                          [json |-> JsonDump(written),
                                           valid |-> TRUE, mtime |-> now + took])
                      /\ reply' = [op |-> "end_episode", id |-> episode_id,
                                   llm |-> Some(llm.kind),
                                   file |-> Some(filename),
                                   out |-> Returned("Experience saved")]
      /\ UNCHANGED <<api_key, calls>>

\* call_tool("end_episode", {episode_id, result, success, notes}).  llm is
\* what the chat completion call does if it is made; remote and delay are
\* those of storage.save.  The reply also tells what the chat completion
\* call did, if extract_experience was called.
end_episode(episode_id, result, success, notes, llm, remote, delay) ==
  LET found == DictGet(episodes, episode_id)
      ended == [heap EXCEPT ![found[1]] =
                  [@ EXCEPT !.final_result = Some(result),
                            !.final_success = Some(success),
                            !.notes = notes]]
      episode == ended[found[1]]
      extraction == extract_experience(to_kimi_input(episode), api_key, llm)
      experience == BuildExperience(episode, extraction.val[1], result)
      filename == FileName(now)
      embed_gen == get_embedding_gen(embedding_gen, api_key)
      e == embed(cache, SearchText(experience), remote)
      took == IF embed_gen # None /\ e.called THEN delay ELSE 0
      written == IF embed_gen # None
                 THEN DictSet(experience, "embedding", e.val)
                 ELSE experience
  IN  /\ reply = Idle
      /\ IF found = None
         THEN /\ reply' = [op |-> "end_episode", id |-> episode_id,
                           llm |-> None, file |-> None,
                           out |-> Returned("Error: not found")]
              /\ UNCHANGED <<now, heap, episodes, files, embedding_gen, cache>>
         ELSE /\ heap' = ended
              /\ episodes' = DictDel(episodes, episode_id)
              /\ IF ~success
                 THEN /\ reply' = [op |-> "end_episode", id |-> episode_id,
                                   llm |-> None, file |-> None,
                                   out |-> Returned("No experience extracted")]
                      /\ UNCHANGED <<now, files, embedding_gen, cache>>
                 ELSE IF extraction.raised # None
                 THEN /\ reply' = [op |-> "end_episode", id |-> episode_id,
                                   llm |-> Some(llm.kind), file |-> None,
                                   out |-> Returned(
                                     IF extraction.raised = Some("ValueError")
                                     THEN "NOT saved: configuration"
                                     ELSE "NOT saved: error")]
                      /\ UNCHANGED <<now, files, embedding_gen, cache>>
                 ELSE /\ now + took <= MaxTick
                      /\ embedding_gen' = embed_gen
                      /\ cache' = IF embed_gen # None THEN e.cache ELSE cache
                      /\ now' = now + took
                      /\ files' = DictSet(files, filename,
                                          [json |-> JsonDump(written),
                                           valid |-> TRUE, mtime |-> now + took])
                      /\ reply' = [op |-> "end_episode", id |-> episode_id,
                                   llm |-> Some(llm.kind),
                                   file |-> Some(filename),
                                   out |-> Returned("Experience saved")]
      /\ UNCHANGED <<api_key, calls>>

\* call_tool("pull_experiences", {query, limit}): limit is None when the
\* argument is not given; storage.search is called with semantic=True.
pull_experiences(query, limit, remote, order) ==
  LET n == IF limit = None THEN DefaultPullLimit ELSE limit[1]
      embed_gen == get_embedding_gen(embedding_gen, api_key)
      query_embedding == IF embed_gen # None
                         THEN embed_search_text(query, remote)
                         ELSE None
      results == search(files, query, n, query_embedding, order)
  IN  /\ reply = Idle
      /\ embedding_gen' = embed_gen
      /\ reply' = [op |-> "pull_experiences", val |-> results,
                   out |-> Returned(IF results = <<>> THEN "No experiences found"
                                    ELSE "Found")]
      /\ UNCHANGED <<now, heap, episodes, files, api_key, cache, calls>>

NextServer ==
  \/ Return
  \/ Tick
  \/ \E task \in ServerTasks : start_episode(task)
  \/ \E episode_id \in CallerIds, short_desc \in ServerDescs, c \in LogCalls :
       log_attempt(episode_id, short_desc, c.error_output, c.success)
  \/ \E episode_id \in CallerIds, result \in Results, success \in BOOLEAN,
        notes \in ServerNotes, llm \in LlmResults, remote \in ServerRemotes :
       end_episode(episode_id, result, success, notes, llm, remote, 0)
  \/ \E query \in Queries, limit \in PullLimits, remote \in ServerRemotes,
        order \in GlobOrders :
       pull_experiences(query, limit, remote, order)

SpecServer == Init /\ [][NextServer]_vars

(***************************************************************************)
(* Claims about the tool handlers.                                         *)
(***************************************************************************)
\* The step is a call of the handler op.
Handles(op) == reply = Idle /\ reply'.op = op

\* C12: end_episode writes an experience only when it is called with
\* success = true for a registered episode and the extraction succeeds (the
\* credential is set and the chat completion answers with JSON), and then
\* it writes one; for success = false, for an id that is not registered and
\* for an extraction that fails on the configuration or on the call or its
\* parsing, the directory is left as it was, and on a failed extraction the
\* reply says that the episode data was NOT saved.
C12_SavedOnlyOnSuccess ==
  [][ Handles("end_episode") =>
        LET registered == reply'.id \in DOMAIN episodes
            success == heap'[episodes[reply'.id]].final_success = Some(TRUE)
            extracted == api_key /\ reply'.llm = Some("json")
        IN  IF registered /\ success /\ extracted
            THEN /\ reply'.out = Returned("Experience saved")
                 /\ reply'.file # None
                 /\ reply'.file[1] \in DOMAIN files'
                 /\ Loaded(files', reply'.file[1])["id"] = reply'.id
            ELSE /\ files' = files
                 /\ ~registered => reply'.out = Returned("Error: not found")
                 /\ (registered /\ ~success)
                      => reply'.out = Returned("No experience extracted")
                 /\ (registered /\ success /\ ~api_key)
                      => reply'.out = Returned("NOT saved: configuration")
                 /\ (registered /\ success /\ api_key)
                      => reply'.out = Returned("NOT saved: error")
    ]_vars

\* An end_episode with success = true whose extraction failed on the call,
\* with an experience saved before in the directory.
C12_Witness ==
  /\ reply.op = "end_episode"
  /\ reply.out = Returned("NOT saved: error")
  /\ reply.llm = Some("raises")
  /\ files # EmptyDict

\* C13: log_attempt for a registered id appends exactly one attempt to that
\* episode, changes nothing else and acknowledges, whatever error_output
\* is; for an id that is not registered it returns the error text without
\* raising and changes no episode and not the registry.
C13_LogAttemptAppends ==
  [][ Handles("log_attempt") =>
        /\ episodes' = episodes
        /\ IF reply'.id \in DOMAIN episodes
           THEN /\ reply'.out = Returned("Logged")
                /\ \A obj \in Objects :
                     IF obj = episodes[reply'.id]
                     THEN /\ Len(heap'[obj].attempts) = Len(heap[obj].attempts) + 1
                          /\ SubSeq(heap'[obj].attempts, 1, Len(heap[obj].attempts))
                               = heap[obj].attempts
                     ELSE heap'[obj] = heap[obj]
           ELSE /\ reply'.out = Returned("Error: not found")
                /\ heap' = heap
    ]_vars

\* C18: every registered episode has final_success, final_result and notes
\* unset; final_success is assigned only by the end step that removes the
\* episode from the registry, and once: it was unset before.
C18_FinalSetOnceAtEnd ==
  /\ [](\A id \in DOMAIN episodes :
          /\ heap[episodes[id]].final_success = None
          /\ heap[episodes[id]].final_result = None
          /\ heap[episodes[id]].notes = None)
  /\ [][ \A obj \in Objects :
           heap'[obj].final_success # heap[obj].final_success =>
             /\ heap[obj].final_success = None
             /\ Handles("end_episode")
             /\ reply'.id \in DOMAIN episodes
             /\ episodes[reply'.id] = obj
             /\ reply'.id \notin DOMAIN episodes'
       ]_vars

\* An episode ended with its fields set, after an attempt was logged to it,
\* while another episode is registered and a search has been answered.
C18_Witness ==
  /\ reply.op = "pull_experiences"
  /\ \E obj \in Objects :
       /\ heap[obj].final_success # None
       /\ heap[obj].notes # None
       /\ heap[obj].attempts # <<>>
       /\ heap[obj].id \notin DOMAIN episodes
  /\ episodes # EmptyDict

(***************************************************************************)
(* EpisodeTracker called from several threads.  The class takes no lock,   *)
(* so a thread can be switched out between any two of its accesses to      *)
(* self._episodes; one step below is one such access (dict.get, the        *)
(* subscript assignment, del), or the statements between two of them.      *)
(***************************************************************************)
Frame(pc, op, id, episode, args, out) ==
  [pc |-> pc, op |-> op, id |-> id, episode |-> episode, args |-> args,
   out |-> out]

Done(op, id, out) == Frame("done", op, id, None, None, out)

\* start, lines 80-85: the id from the clock, the Episode constructed.
T_StartNew(t, task) ==
  /\ calls[t] = NoCall
  /\ Len(heap) < MaxEpisodes
  /\ heap' = Append(heap, Episode(EpisodeId(now), task, now))
  /\ calls' = [calls EXCEPT ![t] =
                 Frame("start_put", "start", EpisodeId(now),
                       Some(Len(heap) + 1), None, None)]
  /\ UNCHANGED <<now, episodes, files, embedding_gen, api_key, cache, reply>>

\* start, lines 86-87: self._episodes[episode_id] = episode; return episode
T_StartPut(t) ==
  /\ calls[t].pc = "start_put"
  /\ episodes' = DictSet(episodes, calls[t].id, calls[t].episode[1])
  /\ calls' = [calls EXCEPT ![t] = Done("start", calls[t].id,
                                        Returned(calls[t].episode))]
  /\ UNCHANGED <<now, heap, files, embedding_gen, api_key, cache, reply>>

\* get, line 91: return self._episodes.get(episode_id)
T_Get(t, episode_id) ==
  /\ calls[t] = NoCall
  /\ calls' = [calls EXCEPT ![t] = Done("get", episode_id,
                                        Returned(DictGet(episodes, episode_id)))]
  /\ UNCHANGED <<now, heap, episodes, files, embedding_gen, api_key, cache, reply>>

\* end, line 96: episode = self._episodes.get(episode_id)
T_EndGet(t, episode_id, result, success, notes) ==
  /\ calls[t] = NoCall
  /\ calls' = [calls EXCEPT ![t] =
                 Frame("end_set", "end", episode_id,
                       DictGet(episodes, episode_id),
                       Some(<<result, success, notes>>), None)]
  /\ UNCHANGED <<now, heap, episodes, files, embedding_gen, api_key, cache, reply>>

\* end, lines 97-100: if episode: the three fields are assigned; without an
\* episode line 103 returns None.
T_EndSet(t) ==
  /\ calls[t].pc = "end_set"
  /\ IF calls[t].episode = None
     THEN /\ calls' = [calls EXCEPT ![t] = Done("end", calls[t].id, Returned(None))]
          /\ UNCHANGED heap
     ELSE /\ heap' = [heap EXCEPT ![calls[t].episode[1]] =
                        [@ EXCEPT !.final_result = Some(calls[t].args[1][1]),
                                  !.final_success = Some(calls[t].args[1][2]),
                                  !.notes = calls[t].args[1][3]]]
          /\ calls' = [calls EXCEPT ![t].pc = "end_del"]
  /\ UNCHANGED <<now, episodes, files, embedding_gen, api_key, cache, reply>>

\* end, lines 102-103: del self._episodes[episode_id] raises KeyError when
\* the key is not in the dict; return episode.
T_EndDel(t) ==
  /\ calls[t].pc = "end_del"
  /\ IF calls[t].id \in DOMAIN episodes
     THEN /\ episodes' = DictDel(episodes, calls[t].id)
          /\ calls' = [calls EXCEPT ![t] = Done("end", calls[t].id,
                                                Returned(calls[t].episode))]
     ELSE /\ calls' = [calls EXCEPT ![t] = Done("end", calls[t].id,
                                                Raised("KeyError"))]
          /\ UNCHANGED episodes
  /\ UNCHANGED <<now, heap, files, embedding_gen, api_key, cache, reply>>

\* The caller on thread t takes what its call returned or raised.
T_Return(t) ==
  /\ calls[t].pc = "done"
  /\ calls' = [calls EXCEPT ![t] = NoCall]
  /\ UNCHANGED <<now, heap, episodes, files, embedding_gen, api_key, cache, reply>>

NextThreads ==
  \/ Tick
  \/ \E t \in Threads, task \in ServerTasks : T_StartNew(t, task)
  \/ \E t \in Threads : T_StartPut(t)
  \/ \E t \in Threads, episode_id \in CallerIds : T_Get(t, episode_id)
  \/ \E t \in Threads, episode_id \in CallerIds, result \in Results,
        success \in BOOLEAN, notes \in ServerNotes :
       T_EndGet(t, episode_id, result, success, notes)
  \/ \E t \in Threads : T_EndSet(t)
  \/ \E t \in Threads : T_EndDel(t)
  \/ \E t \in Threads : T_Return(t)

SpecThreads == InitTracker /\ [][NextThreads]_vars

\* C16: with the calls of several threads interleaved between their
\* accesses to the registry, no call raises, and of two end calls for the
\* same registered episode that have both returned, one returned the
\* episode and the other None.
C16_ConcurrentEndSafe ==
  /\ \A t \in Threads : calls[t].pc = "done" => calls[t].out.raised = None
  /\ \A t, u \in Threads :
       (/\ t # u
        /\ calls[t].pc = "done" /\ calls[u].pc = "done"
        /\ calls[t].op = "end" /\ calls[u].op = "end"
        /\ calls[t].id = calls[u].id
        /\ calls[t].out.val # Some(None))
         => calls[u].out.val # calls[t].out.val

\* The query embedding the search that `reply` answers obtained, if any.
Obtained == reply.called # None /\ reply.called[1] # None

\* C17: the keyword part of a record's score, the score less its semantic
\* term, is one boost for each distinct lower-cased query word that is a
\* substring of the record's lower-cased text and one more for each that is
\* a whole word of it; the boost is 0.5 when the call obtained a query
\* embedding and 1.0 otherwise, whether or not the record has a stored
\* embedding.
C17_KeywordPart ==
  reply.op = "search" =>
    \A f \in DOMAIN files :
      LET exp == Loaded(files, f)
          semantic == IF Obtained /\ HasVector(exp)
                      THEN Max(0, 10 * cosine_similarity(reply.called[1][1],
                                                         exp["embedding"][1]))
                      ELSE 0
          boost == IF Obtained THEN ScoreUnit \div 2 ELSE ScoreUnit
      IN  Score(exp, QueryWords(reply.query), reply.query_embedding) - semantic
            = boost * Boosts(exp, reply.query)

\* A search that obtained a query embedding has returned a record without
\* a stored embedding for one boost of 0.5: a query word that is a substring
\* of its text and not a whole word of it.
C17_Witness ==
  /\ reply.op = "search"
  /\ Obtained
  /\ \E i \in 1..Len(reply.val) :
       /\ ~HasVector(Loaded(files, reply.val[i]))
       /\ Boosts(Loaded(files, reply.val[i]), reply.query) = 1
       /\ ReplyScores[reply.val[i]] = ScoreUnit \div 2

(***************************************************************************)
(* Episode.to_kimi_input on an episode the caller holds: any episode that  *)
(* add_attempt calls can build, still active or ended by tracker.end.      *)
(***************************************************************************)
MaxKimiAttempts == 6

KimiAttempts ==
  {Attempt("d1", None, None, FALSE),
   Attempt("d2", Some("TimeoutError"), None, FALSE),
   Attempt("d1", None, None, TRUE),
   Attempt("d2", None, None, TRUE)}

KimiAttemptSeqs == UNION {[1..n -> KimiAttempts] : n \in 0..MaxKimiAttempts}

\* The final fields: unset, or as tracker.end(id, result, success) set them.
Final(result, success) == [result |-> result, success |-> success]
Finals ==
  {Final(None, None), Final(Some("r1"), Some(TRUE)),
   Final(Some("r1"), Some(FALSE)), Final(Some(""), Some(TRUE))}

InitKimi ==
  /\ now = 0
  /\ \E attempts \in KimiAttemptSeqs, final \in Finals :
       /\ heap = <<[Episode(EpisodeId(0), S_A, 0) EXCEPT
                      !.attempts = attempts,
                      !.final_result = final.result,
                      !.final_success = final.success]>>
       /\ episodes = IF final.success = None
                     THEN DictSet(EmptyDict, EpisodeId(0), 1)
                     ELSE EmptyDict
  /\ files = EmptyDict
  /\ embedding_gen = None
  /\ api_key = FALSE
  /\ cache = <<>>
  /\ reply = Idle
  /\ calls = [t \in Threads |-> NoCall]

\* episode.to_kimi_input()
ToKimiInput(obj) ==
  /\ reply = Idle
  /\ reply' = [op |-> "to_kimi_input", obj |-> obj,
               val |-> to_kimi_input(heap[obj])]
  /\ UNCHANGED <<now, heap, episodes, files, embedding_gen, api_key, cache, calls>>

NextKimi ==
  \/ Return
  \/ \E obj \in Objects : ToKimiInput(obj)

SpecKimi == InitKimi /\ [][NextKimi]_vars

\* C19: to_kimi_input gives as failures the attempts of get_failures(5),
\* the last min(5, F) failed attempts in order, each as its description
\* and its error type, the text "unknown" where the error type is None;
\* and success is None exactly when no attempt of the episode succeeded,
\* whatever final_success is.
C19_KimiInput ==
  reply.op = "to_kimi_input" =>
    LET episode == heap[reply.obj]
        failed == get_failures(episode.attempts, 5)
    IN  /\ IsSelection(failed, episode.attempts,
                       LastFailedAt(episode.attempts, 5))
        /\ Len(reply.val.failures) = Len(failed)
        /\ \A i \in 1..Len(failed) :
             /\ reply.val.failures[i].desc = failed[i].short_desc
             /\ reply.val.failures[i].error
                  = IF failed[i].error_type = None THEN "unknown"
                    ELSE failed[i].error_type[1]
        /\ reply.val.success = None
             <=> \A i \in 1..Len(episode.attempts) : ~episode.attempts[i].success

\* An episode ended as successful with more than 5 failed attempts, none
\* successful: 5 failures, one of them "unknown", and success None.
C19_Witness ==
  /\ reply.op = "to_kimi_input"
  /\ heap[reply.obj].final_success = Some(TRUE)
  /\ Len(FailedAttempts(heap[reply.obj].attempts)) > 5
  /\ Len(reply.val.failures) = 5
  /\ \E i \in 1..5 : reply.val.failures[i].error = "unknown"
  /\ \E i \in 1..5 : reply.val.failures[i].error # "unknown"
  /\ reply.val.success = None

(***************************************************************************)
(* The directory with files that json.load cannot read: a file of the      *)
(* directory is left truncated by a writer that was cut off, or is         *)
(* overwritten from outside the process.                                   *)
(***************************************************************************)
Corrupt(f) ==
  /\ reply = Idle
  /\ files[f].valid
  /\ files' = [files EXCEPT ![f] = [json |-> {}, valid |-> FALSE, mtime |-> now]]
  /\ UNCHANGED <<now, heap, episodes, embedding_gen, api_key, cache, reply, calls>>

NextRecent ==
  \/ Return
  \/ Tick
  \/ \E experience \in Experiences : Save(experience, None, 0)
  \/ \E f \in DOMAIN files : Corrupt(f)
  \/ \E limit \in 0..MaxLimit, order \in GlobOrders : GetRecent(limit, order)

SpecRecent == InitTracker /\ [][NextRecent]_vars

\* C20: get_recent(limit) returns the min(limit, R) most recently modified
\* of the R readable records, in descending order of modification time; an
\* unreadable file is passed over and takes no place among them.
C20_RecentReadable ==
  reply.op = "get_recent" =>
    LET Readable == {f \in DOMAIN files : files[f].valid}
        val == reply.val
    IN  /\ Len(val) = Min(reply.limit, Cardinality(Readable))
        /\ \A i \in 1..Len(val) : val[i] \in Readable
        /\ \A i, j \in 1..Len(val) :
             i < j => val[i] # val[j] /\ files[val[i]].mtime >= files[val[j]].mtime
        /\ \A f \in Readable \ SetOf(val) :
             \A i \in 1..Len(val) : files[val[i]].mtime >= files[f].mtime

(***************************************************************************)
(* The EmbeddingGenerator alone, its two methods called with texts of a    *)
(* long run: Text(n) is the n-th distinct text, and the run starts with an *)
(* empty cache, or with the cache as it is after embed has answered for    *)
(* the first LruMaxsize - 1 texts in turn.                                 *)
(***************************************************************************)
Text(n) == <<"text", n>>

Prefill(k) == [i \in 1..k |-> [text |-> Text(i), vec |-> <<1, 0>>]]

\* The texts of the calls: two of the oldest, and the two that fill the
\* cache and overflow it.
CalledTexts == {Text(1), Text(2), Text(LruMaxsize), Text(LruMaxsize + 1)}

InitCache ==
  /\ now = 0
  /\ heap = <<>>
  /\ episodes = EmptyDict
  /\ files = EmptyDict
  /\ embedding_gen = Some("gen")
  /\ api_key = TRUE
  /\ cache \in {Prefill(0), Prefill(LruMaxsize - 1)}
  /\ reply = Idle
  /\ calls = [t \in Threads |-> NoCall]

\* embed_gen.embed(text): the exception of the remote call leaves the
\* method as it is.
Embed(text, remote) ==
  LET e == embed(cache, text, remote)
  IN  /\ reply = Idle
      /\ cache' = e.cache
      /\ reply' = [op |-> "embed", text |-> text, called |-> e.called,
                   out |-> IF e.val = None THEN Raised("APIError")
                           ELSE Returned(e.val[1])]
      /\ UNCHANGED <<now, heap, episodes, files, embedding_gen, api_key, calls>>

\* embed_gen.embed_search_text(text)
EmbedSearchText(text, remote) ==
  LET v == embed_search_text(text, remote)
  IN  /\ reply = Idle
      /\ reply' = [op |-> "embed_search_text", text |-> text, called |-> TRUE,
                   out |-> IF v = None THEN Raised("APIError")
                           ELSE Returned(v[1])]
      /\ UNCHANGED <<now, heap, episodes, files, embedding_gen, api_key, cache, calls>>

NextCache ==
  \/ Return
  \/ \E text \in CalledTexts, remote \in RemoteResults : Embed(text, remote)
  \/ \E text \in CalledTexts, remote \in RemoteResults :
       EmbedSearchText(text, remote)

SpecCache == InitCache /\ [][NextCache]_vars

\* The entries of a cache, and its texts.
Entries(c) == {c[i] : i \in 1..Len(c)}
CachedTexts(c) == {c[i].text : i \in 1..Len(c)}

\* C21: the cache never holds more than its capacity nor a text twice.  An
\* embed call for a text in the cache returns the cached vector without a
\* remote call and keeps every entry, the text's entry now the most
\* recently used.  For a text not in the cache the remote is called: its
\* failure is raised and leaves the cache as it was (so the next call for
\* the text calls the remote again), its answer is returned and stored as
\* the most recently used entry, the least recently used entry leaving a
\* full cache.  embed_search_text calls the remote and leaves the cache as
\* it was.
C21_EmbedCached ==
  /\ [](/\ Len(cache) <= LruMaxsize
        /\ Cardinality(CachedTexts(cache)) = Len(cache))
  /\ [][ /\ Handles("embed") =>
              LET i == CacheAt(cache, reply'.text)
              IN  IF i # 0
                  THEN /\ ~reply'.called
                       /\ reply'.out = Returned(cache[i].vec)
                       /\ Entries(cache') = Entries(cache)
                       /\ cache'[Len(cache')] = cache[i]
                       /\ Without(cache', Len(cache')) = Without(cache, i)
                  ELSE /\ reply'.called
                       /\ IF reply'.out.raised # None
                          THEN cache' = cache
                          ELSE /\ cache'[Len(cache')]
                                    = [text |-> reply'.text,
                                       vec |-> reply'.out.val[1]]
                               /\ Without(cache', Len(cache'))
                                    = IF Len(cache) = LruMaxsize
                                      THEN Tail(cache) ELSE cache
         /\ Handles("embed_search_text") =>
              /\ reply'.called
              /\ cache' = cache
       ]_vars

\* A miss on a full cache has stored its answer, and the entry that left
\* was not the oldest inserted, which an earlier hit had made recent.
C21_Witness ==
  /\ reply.op = "embed"
  /\ reply.called
  /\ reply.out.raised = None
  /\ Len(cache) = LruMaxsize
  /\ Text(1) \in CachedTexts(cache)
  /\ Text(2) \notin CachedTexts(cache)
  /\ Text(3) \in CachedTexts(cache)

(***************************************************************************)
(* Calls that follow end_episode.                                          *)
(***************************************************************************)
\* C22: whatever end_episode answers (saved, nothing extracted, NOT saved
\* for the configuration or for the call or its parsing), its id is not
\* registered after it; end_episode answers "not found" exactly for an id
\* that is not registered, and then writes no file and changes no episode;
\* log_attempt for an id that is not registered answers "not found" and
\* changes nothing.  An id leaves the registry at end_episode and enters it
\* only at start_episode, so a call repeated after a failed extraction
\* finds no episode and persists nothing.
C22_EndedIsNotFound ==
  [][ /\ Handles("end_episode") =>
           /\ reply'.id \notin DOMAIN episodes'
           /\ reply'.id \in DOMAIN episodes =>
                reply'.out \in {Returned("No experience extracted"),
                                Returned("NOT saved: configuration"),
                                Returned("NOT saved: error"),
                                Returned("Experience saved")}
           /\ reply'.id \notin DOMAIN episodes =>
                /\ reply'.out = Returned("Error: not found")
                /\ files' = files
                /\ heap' = heap
                /\ episodes' = episodes
      /\ Handles("log_attempt") /\ reply'.id \notin DOMAIN episodes =>
           /\ reply'.out = Returned("Error: not found")
           /\ heap' = heap
           /\ episodes' = episodes
      /\ \A id \in DOMAIN episodes' \ DOMAIN episodes :
           Handles("start_episode") /\ reply'.id = id
    ]_vars

\* end_episode called again, for an episode ended with success = true whose
\* extraction had failed, answers "not found", and no file exists.
C22_Witness ==
  /\ reply.op = "end_episode"
  /\ reply.out = Returned("Error: not found")
  /\ files = EmptyDict
  /\ \E obj \in Objects :
       /\ heap[obj].id = reply.id
       /\ heap[obj].final_success = Some(TRUE)
       /\ heap[obj].attempts # <<>>

(***************************************************************************)
(* Several episodes at once: the handlers that start, log to and end an    *)
(* episode, add_attempt on an Episode the caller holds, and the calls that *)
(* only read (tracker.get, storage.search, storage.get_recent).            *)
(***************************************************************************)
NextMany ==
  \/ Return
  \/ Tick
  \/ \E task \in ServerTasks : start_episode(task)
  \/ \E episode_id \in CallerIds, short_desc \in ServerDescs, c \in LogCalls :
       log_attempt(episode_id, short_desc, c.error_output, c.success)
  \/ \E obj \in Objects, short_desc \in ServerDescs, success \in BOOLEAN :
       /\ Logged(heap) < MaxLogged
       /\ AddAttempt(obj, short_desc, None, None, success)
  \/ \E episode_id \in CallerIds, result \in Results, success \in BOOLEAN,
        notes \in ServerNotes, remote \in ServerRemotes,
        llm \in {l \in LlmResults : l.kind \in {"raises", "json"}} :
       end_episode(episode_id, result, success, notes, llm, remote, 0)
  \/ \E episode_id \in CallerIds : Get(episode_id)
  \/ \E query \in Queries, limit \in PullLimits, remote \in ServerRemotes,
        order \in GlobOrders :
       pull_experiences(query, limit, remote, order)
  \/ \E query \in Queries, order \in GlobOrders :
       Search(query, 1, FALSE, None, order)
  \/ \E limit \in {0, 1}, order \in GlobOrders : GetRecent(limit, order)

SpecMany == Init /\ [][NextMany]_vars

\* The attempts, final fields and identity of every Episode other than
\* those of `touched` are as before the step.
OthersUnchanged(touched) ==
  \A obj \in Objects : obj \notin touched => heap'[obj] = heap[obj]

\* Every registry entry except that of id is as before the step.
OtherEntriesUnchanged(id) ==
  /\ DOMAIN episodes' \ {id} = DOMAIN episodes \ {id}
  /\ \A other \in DOMAIN episodes \ {id} : episodes'[other] = episodes[other]

\* The Episode registered under id, if any.
RegisteredAs(id) == IF id \in DOMAIN episodes THEN {episodes[id]} ELSE {}

\* C23: add_attempt and log_attempt change at most the attempts of their
\* own episode, and neither the registry nor the stored experiences;
\* end_episode changes at most the final fields and the registry entry of
\* its own episode; search (also through pull_experiences), get_recent and
\* get change no episode, no registry entry and no stored experience.
C23_EpisodesIndependent ==
  [][ /\ Handles("add_attempt") =>
           /\ OthersUnchanged({reply'.obj})
           /\ heap'[reply'.obj]
                = [heap[reply'.obj] EXCEPT !.attempts = heap'[reply'.obj].attempts]
           /\ Len(heap'[reply'.obj].attempts)
                = Len(heap[reply'.obj].attempts) + 1
           /\ episodes' = episodes
           /\ files' = files
      /\ Handles("log_attempt") =>
           /\ OthersUnchanged(RegisteredAs(reply'.id))
           /\ \A obj \in RegisteredAs(reply'.id) :
                heap'[obj] = [heap[obj] EXCEPT !.attempts = heap'[obj].attempts]
           /\ episodes' = episodes
           /\ files' = files
      /\ Handles("end_episode") =>
           /\ OthersUnchanged(RegisteredAs(reply'.id))
           /\ \A obj \in RegisteredAs(reply'.id) :
                /\ heap'[obj].attempts = heap[obj].attempts
                /\ heap'[obj].id = heap[obj].id
                /\ heap'[obj].final_success # None
           /\ OtherEntriesUnchanged(reply'.id)
      /\ (\/ Handles("get")
          \/ Handles("search")
          \/ Handles("get_recent")
          \/ Handles("pull_experiences")) =>
           /\ heap' = heap
           /\ episodes' = episodes
           /\ files' = files
    ]_vars

\* An episode was ended with no attempt of its own, while another episode
\* with an attempt logged is registered, its final fields unset.
C23_Witness ==
  /\ reply.op = "end_episode"
  /\ reply.out # Returned("Error: not found")
  /\ \E obj \in Objects :
       /\ heap[obj].id = reply.id
       /\ heap[obj].final_success # None
       /\ heap[obj].attempts = <<>>
  /\ \E id \in DOMAIN episodes :
       /\ id # reply.id
       /\ heap[episodes[id]].attempts # <<>>
       /\ heap[episodes[id]].final_success = None

====
